---------------------------- MODULE Spec2Model ----------------------------
(***************************************************************************)
(* Forecast Accuracy API (src/api/main.py): one-shot ingestion of a wide   *)
(* CSV table into the long / list / metrics tables, and the read-only      *)
(* query operations served over them.                                      *)
(*                                                                         *)
(* Text is modelled as a sequence of one-character strings, so that strip, *)
(* upper, lower, numeric parsing and period parsing are computed and not   *)
(* assumed.  Floats are modelled as exact rationals [num, den]; a float    *)
(* NaN is the value NaN, a pandas NaT is the value NaT.                    *)
(***************************************************************************)
EXTENDS Integers, Sequences, FiniteSets, TLC

VARIABLES
    pc,             \* position of the module-level script / the service
    source,         \* the CSV file on disk: [exists, columns, rows]
    wide,           \* wide table after read_csv and column-name strip
    method_cols,    \* detected method columns, in column order
    long,           \* melted + cleaned table (sequence of observations)
    long_for_lists, \* laxer filter used by the list endpoints
    metrics_df,     \* rows with numeric forecast, numeric actual and an FY
    result,         \* the response of the last query served
    fy_d,           \* fy_from_date: the argument d
    fy_out,         \* fy_from_date: the returned label
    cm_sub,         \* compute_metrics: the argument sub
    cm_out          \* compute_metrics: the returned dict

vars == <<pc, source, wide, method_cols, long, long_for_lists, metrics_df,
          result, fy_d, fy_out, cm_sub, cm_out>>

-----------------------------------------------------------------------------
(* Bounds of the model *)

MaxRows == 2
FySpan == 2
MaxSliceLen == 2
CmMax == 2

-----------------------------------------------------------------------------
(* Generic sequence helpers *)

Range(s) == {s[i] : i \in 1..Len(s)}

\* a name the script has not assigned yet
Unset == <<"unset">>
UnsetWide == [columns |-> <<>>, rows |-> <<>>, unset |-> TRUE]
UnsetTable == <<[unset |-> TRUE]>>

RECURSIVE SelectIdx(_, _, _)
\* indices i of s, in order, for which keep[i] holds
SelectIdx(s, keep, i) ==
    IF i > Len(s) THEN <<>>
    ELSE (IF keep[i] THEN <<s[i]>> ELSE <<>>) \o SelectIdx(s, keep, i + 1)

\* s[keep]: boolean indexing with a mask over the positions of s
Filter(s, keep) == SelectIdx(s, keep, 1)

\* the rows of s whose column col holds val
Where(s, col, val) == Filter(s, [i \in 1..Len(s) |-> s[i][col] = val])

\* set(s[col])
Column(s, col) == {s[i][col] : i \in 1..Len(s)}

-----------------------------------------------------------------------------
(* Python str methods, on sequences of characters *)

Lowers == <<"a","b","c","d","e","f","g","h","i","j","k","l","m",
            "n","o","p","q","r","s","t","u","v","w","x","y","z">>
Uppers == <<"A","B","C","D","E","F","G","H","I","J","K","L","M",
            "N","O","P","Q","R","S","T","U","V","W","X","Y","Z">>
Digits == <<"0","1","2","3","4","5","6","7","8","9">>

IsDigit(c) == c \in Range(Digits)
IsAlpha(c) == c \in Range(Lowers) \cup Range(Uppers)
IsSpace(c) == c = " "

DigitVal(c) == (CHOOSE i \in 1..10 : Digits[i] = c) - 1

UpperCh(c) == IF c \in Range(Lowers)
              THEN Uppers[CHOOSE i \in 1..26 : Lowers[i] = c] ELSE c
LowerCh(c) == IF c \in Range(Uppers)
              THEN Lowers[CHOOSE i \in 1..26 : Uppers[i] = c] ELSE c

StrUpper(s) == [i \in 1..Len(s) |-> UpperCh(s[i])]
StrLower(s) == [i \in 1..Len(s) |-> LowerCh(s[i])]

RECURSIVE LStrip(_)
LStrip(s) == IF s # <<>> /\ IsSpace(Head(s)) THEN LStrip(Tail(s)) ELSE s

RECURSIVE RStrip(_)
RStrip(s) == IF s # <<>> /\ IsSpace(s[Len(s)])
             THEN RStrip(SubSeq(s, 1, Len(s) - 1)) ELSE s

StrStrip(s) == RStrip(LStrip(s))

\* s.replace(old, new) for a single character old
StrReplaceCh(s, old, new) ==
    [i \in 1..Len(s) |-> IF s[i] = old THEN new ELSE s[i]]

StrRemoveCh(s, old) == Filter(s, [i \in 1..Len(s) |-> s[i] # old])

\* sub in s
StrContains(s, sub) ==
    \E i \in 1..(Len(s) - Len(sub) + 1) : SubSeq(s, i, i + Len(sub) - 1) = sub

AllDigits(s) == \A i \in 1..Len(s) : IsDigit(s[i])
AllAlpha(s) == \A i \in 1..Len(s) : IsAlpha(s[i])

RECURSIVE DigitsToInt(_)
DigitsToInt(s) ==
    IF s = <<>> THEN 0
    ELSE 10 * DigitsToInt(SubSeq(s, 1, Len(s) - 1)) + DigitVal(s[Len(s)])

RECURSIVE IntToStr(_)
\* str(n) for n >= 0
IntToStr(n) ==
    IF n < 10 THEN <<Digits[n + 1]>>
    ELSE IntToStr(n \div 10) \o <<Digits[(n % 10) + 1]>>

\* s[-2:]
LastTwo(s) == IF Len(s) <= 2 THEN s ELSE SubSeq(s, Len(s) - 1, Len(s))


-----------------------------------------------------------------------------
(* Missing values and numbers *)

NaN == [nan |-> TRUE, v |-> 0]
Num(n) == [nan |-> FALSE, v |-> n]
NaT == <<>>

\* the cells pandas.read_csv reads as missing; astype(str) prints them "nan"
CsvNaTokens == { <<>>, <<"N","A">>, <<"N","/","A">>, <<"n","a","n">> }

AsStr(cell) == IF cell \in CsvNaTokens THEN <<"n","a","n">> ELSE cell

ToNumSentinels ==
    { <<>>, <<"n","a","n">>, <<"N","o","n","e">>, <<"N","/","A">>,
      <<"N","A">>, <<"-">> }

\* pd.to_numeric(s, errors="coerce") on integer literals
ToNumeric(s) ==
    IF s # <<>> /\ AllDigits(s) THEN Num(DigitsToInt(s))
    ELSE IF Len(s) >= 2 /\ s[1] = "-" /\ AllDigits(Tail(s))
         THEN Num(0 - DigitsToInt(Tail(s)))
    ELSE IF Len(s) >= 2 /\ s[1] = "+" /\ AllDigits(Tail(s))
         THEN Num(DigitsToInt(Tail(s)))
    ELSE NaN

to_num(cell) ==
    LET s1 == StrStrip(AsStr(cell))
        s2 == StrRemoveCh(s1, ",")
    IN  IF s2 \in ToNumSentinels THEN NaN ELSE ToNumeric(s2)

normalize_forecast_type(cell) ==
    LET ft == StrLower(StrStrip(AsStr(cell)))
    IN  IF StrContains(ft, <<"r","e","v","i","e","w">>) THEN <<"R","e","v","i","e","w">>
        ELSE <<"M","a","i","n">>

is_ai_method(method) ==
    LET m == StrLower(StrStrip(method))
    IN  \/ StrContains(m, <<"a","i">>)
        \/ StrContains(m, <<"l","m","i","s">>)
        \/ StrContains(m, <<"l","m">>)

-----------------------------------------------------------------------------
(* Calendar dates <<year, month, day>> *)

IsLeap(y) == (y % 4 = 0 /\ y % 100 # 0) \/ y % 400 = 0

DaysInMonth(y, m) ==
    IF m = 2 THEN (IF IsLeap(y) THEN 29 ELSE 28)
    ELSE IF m \in {4, 6, 9, 11} THEN 30 ELSE 31

MkDate(y, m, d) ==
    IF m \in 1..12 /\ d >= 1 /\ d <= DaysInMonth(y, m) THEN <<y, m, d>> ELSE NaT

DateLess(a, b) ==
    \/ a[1] < b[1]
    \/ a[1] = b[1] /\ a[2] < b[2]
    \/ a[1] = b[1] /\ a[2] = b[2] /\ a[3] < b[3]

\* pandas Timestamp range, in days since 1970-01-01
TsMinDay == -106752
TsMaxDay == 106751

\* day count since 1970-01-01 to the proleptic Gregorian date
CivilFromDays(days) ==
    LET z   == days + 719468
        era == z \div 146097
        doe == z - era * 146097
        yoe == (doe - (doe \div 1460) + (doe \div 36524) - (doe \div 146096)) \div 365
        doy == doe - (365 * yoe + (yoe \div 4) - (yoe \div 100))
        mp  == (5 * doy + 2) \div 153
        d   == doy - ((153 * mp + 2) \div 5) + 1
        m   == IF mp < 10 THEN mp + 3 ELSE mp - 9
        y   == yoe + era * 400 + (IF m <= 2 THEN 1 ELSE 0)
    IN  <<y, m, d>>

\* 1899-12-30 and 1904-01-01 as days since 1970-01-01
Origin1900 == -25569
Origin1904 == -24107

\* pd.to_datetime(p_num, unit="D", origin=..., errors="coerce")
SerialToDate(p_num, origin) ==
    IF p_num.nan THEN NaT
    ELSE IF p_num.v + origin < TsMinDay \/ p_num.v + origin > TsMaxDay THEN NaT
    ELSE CivilFromDays(p_num.v + origin)

MonthNames ==
    << <<"j","a","n","u","a","r","y">>, <<"f","e","b","r","u","a","r","y">>,
       <<"m","a","r","c","h">>, <<"a","p","r","i","l">>, <<"m","a","y">>,
       <<"j","u","n","e">>, <<"j","u","l","y">>, <<"a","u","g","u","s","t">>,
       <<"s","e","p","t","e","m","b","e","r">>, <<"o","c","t","o","b","e","r">>,
       <<"n","o","v","e","m","b","e","r">>, <<"d","e","c","e","m","b","e","r">> >>

\* month number of a month name or 3-letter abbreviation, 0 when none
MonthOfName(letters) ==
    LET l == StrLower(letters)
        hits == {i \in 1..12 : l = MonthNames[i] \/ l = SubSeq(MonthNames[i], 1, 3)}
    IN  IF hits = {} THEN 0 ELSE CHOOSE i \in hits : TRUE

\* two-digit years: 00-68 -> 20xx, 69-99 -> 19xx
ExpandYear(digits) ==
    IF Len(digits) = 2
    THEN (IF DigitsToInt(digits) < 69 THEN 2000 ELSE 1900) + DigitsToInt(digits)
    ELSE DigitsToInt(digits)

\* ^\d{4}-\d{2}$
MatchYM(s) ==
    /\ Len(s) = 7
    /\ s[5] = "-"
    /\ AllDigits(SubSeq(s, 1, 4))
    /\ AllDigits(SubSeq(s, 6, 7))

\* ^[A-Za-z]{3,9}[-\s]\d{2,4}$
MatchMonYY(s) ==
    \E k \in 4..10 :
        /\ k < Len(s)
        /\ AllAlpha(SubSeq(s, 1, k - 1))
        /\ s[k] \in {"-", " "}
        /\ Len(s) - k \in 2..4
        /\ AllDigits(SubSeq(s, k + 1, Len(s)))

\* pd.to_datetime(s, errors="coerce", dayfirst=True) on the string forms
\* YYYY-MM-DD, DD/MM/YYYY (month-first when the day-first reading is no
\* date) and DD-Mon-YY / DD-Mon-YYYY
\* Each value is parsed on its own, whatever the form of the other values of
\* the column.
DateStr(s) ==
    LET n == Len(s)
    IN  IF /\ n = 10 /\ s[5] = "-" /\ s[8] = "-"
           /\ AllDigits(SubSeq(s, 1, 4)) /\ AllDigits(SubSeq(s, 6, 7))
           /\ AllDigits(SubSeq(s, 9, 10))
        THEN MkDate(DigitsToInt(SubSeq(s, 1, 4)), DigitsToInt(SubSeq(s, 6, 7)),
                    DigitsToInt(SubSeq(s, 9, 10)))
        ELSE IF /\ n = 10 /\ s[3] = "/" /\ s[6] = "/"
                /\ AllDigits(SubSeq(s, 1, 2)) /\ AllDigits(SubSeq(s, 4, 5))
                /\ AllDigits(SubSeq(s, 7, 10))
        THEN LET a == DigitsToInt(SubSeq(s, 1, 2))
                 b == DigitsToInt(SubSeq(s, 4, 5))
                 y == DigitsToInt(SubSeq(s, 7, 10))
             IN  IF MkDate(y, b, a) # NaT THEN MkDate(y, b, a) ELSE MkDate(y, a, b)
        ELSE IF /\ n >= 9 /\ s[3] = "-" /\ AllDigits(SubSeq(s, 1, 2))
                /\ \E k \in 7..(n - 2) :
                       /\ s[k] = "-"
                       /\ AllAlpha(SubSeq(s, 4, k - 1))
                       /\ n - k \in {2, 4}
                       /\ AllDigits(SubSeq(s, k + 1, n))
        THEN LET k == CHOOSE k \in 7..(n - 2) : s[k] = "-"
                 m == MonthOfName(SubSeq(s, 4, k - 1))
             IN  MkDate(ExpandYear(SubSeq(s, k + 1, n)), m,
                        DigitsToInt(SubSeq(s, 1, 2)))
        ELSE NaT

parse_period_to_date(p) ==
    LET p_num     == ToNumeric(StrStrip(AsStr(p)))
        date_1900 == SerialToDate(p_num, Origin1900)
        date_1904 == SerialToDate(p_num, Origin1904)
        s         == StrStrip(AsStr(p))
        s_ym      == IF MatchYM(s) THEN s \o <<"-","0","1">> ELSE s
        s_mmyy    == IF MatchMonYY(s_ym)
                     THEN <<"0","1","-">> \o StrReplaceCh(s_ym, " ", "-")
                     ELSE s_ym
        date_str  == DateStr(s_mmyy)
    IN  IF date_1900 # NaT THEN date_1900
        ELSE IF date_1904 # NaT THEN date_1904
        ELSE date_str

\* variant: the financial year starts in August (month > 7)
fy_from_date_after_july(d) ==
    IF d = NaT THEN <<>>
    ELSE LET y == d[1]
         IN  IF d[2] > 7
             THEN <<"F","Y">> \o LastTwo(IntToStr(y)) \o <<"/">> \o LastTwo(IntToStr(y + 1))
             ELSE <<"F","Y">> \o LastTwo(IntToStr(y - 1)) \o <<"/">> \o LastTwo(IntToStr(y))

fy_from_date(d) ==
    IF d = NaT THEN <<>>
    ELSE LET y == d[1]
         IN  IF d[2] >= 7
             THEN <<"F","Y">> \o LastTwo(IntToStr(y)) \o <<"/">> \o LastTwo(IntToStr(y + 1))
             ELSE <<"F","Y">> \o LastTwo(IntToStr(y - 1)) \o <<"/">> \o LastTwo(IntToStr(y))

-----------------------------------------------------------------------------
(* Ordering of text (code point order) and Python's sorted / list.sort *)

CharOrder == <<" ", "+", ",", "-", "/">> \o Digits \o Uppers \o Lowers

CharOrd(c) == CHOOSE i \in 1..Len(CharOrder) : CharOrder[i] = c

RECURSIVE StrLess(_, _)
StrLess(a, b) ==
    IF b = <<>> THEN FALSE
    ELSE IF a = <<>> THEN TRUE
    ELSE IF Head(a) = Head(b) THEN StrLess(Tail(a), Tail(b))
    ELSE CharOrd(Head(a)) < CharOrd(Head(b))

RECURSIVE SortedStrs(_)
\* sorted(S) for a set of distinct strings
SortedStrs(S) ==
    IF S = {} THEN <<>>
    ELSE LET m == CHOOSE x \in S : \A y \in S \ {x} : StrLess(x, y)
         IN  <<m>> \o SortedStrs(S \ {m})

RECURSIVE KeyLess(_, _)
\* Python tuple comparison of two sort keys (tuples of floats)
KeyLess(k1, k2) ==
    IF k1 = <<>> \/ k2 = <<>> THEN FALSE
    ELSE IF Head(k1) = Head(k2) THEN KeyLess(Tail(k1), Tail(k2))
    ELSE Head(k1).num * Head(k2).den < Head(k2).num * Head(k1).den

RECURSIVE InsertStable(_, _)
\* x goes behind every element whose key is not greater than its own
InsertStable(sorted, x) ==
    IF sorted = <<>> THEN <<x>>
    ELSE IF KeyLess(x.key, Head(sorted).key) THEN <<x>> \o sorted
    ELSE <<Head(sorted)>> \o InsertStable(Tail(sorted), x)

RECURSIVE StableSortFrom(_, _)
StableSortFrom(done, rest) ==
    IF rest = <<>> THEN done
    ELSE StableSortFrom(InsertStable(done, Head(rest)), Tail(rest))

\* list.sort(key=...): stable and ascending; keys[i] is the key tuple of s[i]
StableSort(s, keys) ==
    LET keyed == [i \in 1..Len(s) |-> [key |-> keys[i], item |-> s[i]]]
        out   == StableSortFrom(<<>>, keyed)
    IN  [i \in 1..Len(s) |-> out[i].item]

-----------------------------------------------------------------------------
(* Floats as exact rationals; RatNaN is the float NaN *)

RECURSIVE GCD(_, _)
GCD(a, b) == IF b = 0 THEN a ELSE GCD(b, a % b)

Abs(x) == IF x < 0 THEN 0 - x ELSE x

RatNaN == [nan |-> TRUE, num |-> 0, den |-> 1]

\* np.inf, greater than every n / d
RatInf == [nan |-> FALSE, num |-> 1, den |-> 0]

\* n / d for d # 0, in lowest terms with a positive denominator
Rat(n, d) ==
    LET g == GCD(Abs(n), Abs(d))
        sgn == IF d < 0 THEN -1 ELSE 1
    IN  [nan |-> FALSE, num |-> (sgn * n) \div g, den |-> Abs(d) \div g]

RatAdd(a, b) ==
    IF a.nan \/ b.nan THEN RatNaN
    ELSE Rat(a.num * b.den + b.num * a.den, a.den * b.den)

RatScale(a, k) == IF a.nan THEN RatNaN ELSE Rat(a.num * k, a.den)

RatDivInt(a, k) == IF a.nan \/ k = 0 THEN RatNaN ELSE Rat(a.num, a.den * k)

RatLess(a, b) == a.num * b.den < b.num * a.den

RECURSIVE SumInts(_)
SumInts(s) == IF s = <<>> THEN 0 ELSE Head(s) + SumInts(Tail(s))

RECURSIVE SumRats(_)
SumRats(s) == IF s = <<>> THEN Rat(0, 1) ELSE RatAdd(Head(s), SumRats(Tail(s)))

-----------------------------------------------------------------------------
(* Metrics engine *)

\* variant: MAPE averaged over every row (np.mean with zero-actual rows
\* counted as 0 instead of np.nanmean over the rows with actual != 0)
compute_metrics_mean_all_rows(sub) ==
    LET n        == Len(sub)
        actual   == [i \in 1..n |-> sub[i].actual_num.v]
        forecast == [i \in 1..n |-> sub[i].forecast_num.v]
        errors   == [i \in 1..n |-> forecast[i] - actual[i]]
        bias     == RatDivInt(Rat(SumInts(errors), 1), n)
        rmse     == RatDivInt(Rat(SumInts([i \in 1..n |-> errors[i] * errors[i]]), 1), n)
        ratios   == [i \in 1..n |-> IF actual[i] = 0 THEN Rat(0, 1)
                                    ELSE Rat(Abs(errors[i]), actual[i])]
        mape     == RatScale(RatDivInt(SumRats(ratios), n), 100)
        abs_err_sum == SumInts([i \in 1..n |-> Abs(errors[i])])
        actual_sum  == SumInts([i \in 1..n |-> Abs(actual[i])])
        wape     == IF actual_sum # 0 THEN RatScale(Rat(abs_err_sum, actual_sum), 100)
                    ELSE RatNaN
    IN  [bias |-> bias, rmse |-> rmse, mape |-> mape, wape |-> wape, n |-> n]

\* rmse holds the radicand mean(errors**2): the value is its square root,
\* and square roots compare as their radicands do
compute_metrics(sub) ==
    LET n        == Len(sub)
        actual   == [i \in 1..n |-> sub[i].actual_num.v]
        forecast == [i \in 1..n |-> sub[i].forecast_num.v]
        errors   == [i \in 1..n |-> forecast[i] - actual[i]]
        bias     == RatDivInt(Rat(SumInts(errors), 1), n)
        rmse     == RatDivInt(Rat(SumInts([i \in 1..n |-> errors[i] * errors[i]]), 1), n)
        \* denom = np.where(actual == 0, nan, actual); nanmean skips the NaN
        ratios   == SelectIdx([i \in 1..n |-> IF actual[i] = 0 THEN RatNaN
                                             ELSE Rat(Abs(errors[i]), actual[i])],
                              [i \in 1..n |-> actual[i] # 0], 1)
        mape     == RatScale(RatDivInt(SumRats(ratios), Len(ratios)), 100)
        abs_err_sum == SumInts([i \in 1..n |-> Abs(errors[i])])
        actual_sum  == SumInts([i \in 1..n |-> Abs(actual[i])])
        wape     == IF actual_sum # 0 THEN RatScale(Rat(abs_err_sum, actual_sum), 100)
                    ELSE RatNaN
    IN  [bias |-> bias, rmse |-> rmse, mape |-> mape, wape |-> wape, n |-> n]

-----------------------------------------------------------------------------
(* Configuration *)

TARGET_FYS == << <<"F","Y","2","3","/","2","4">>, <<"F","Y","2","4","/","2","5">>, <<"F","Y","2","5","/","2","6">> >>

COL_PRODUCT == <<"p","r","o","d","u","c","t">>
COL_PERIOD == <<"P","e","r","i","o","d">>
COL_ACTUAL == <<"A","c","t","u","a","l"," ","C","o","n","s","u","m","p","t","i","o","n">>
COL_FTYPE == <<"F","o","r","e","c","a","s","t"," ","T","y","p","e">>
COL_ADOPTED == <<"A","d","o","p","t","e","d">>

required == {COL_PRODUCT, COL_PERIOD, COL_ACTUAL, COL_FTYPE, COL_ADOPTED}

id_vars == <<COL_PRODUCT, COL_PERIOD, COL_ACTUAL, COL_FTYPE, COL_ADOPTED>>

-----------------------------------------------------------------------------
(* The CSV files the service is started on *)

\* header cells as written in the file, some padded with blanks
FileColumns ==
    << <<" ","p","r","o","d","u","c","t">>, <<"P","e","r","i","o","d">>, <<"A","c","t","u","a","l"," ","C","o","n","s","u","m","p","t","i","o","n">>, <<"F","o","r","e","c","a","s","t"," ","T","y","p","e"," ">>, <<"A","d","o","p","t","e","d">>, <<"M","A">>, <<" ","A","I">> >>

\* which of the header cells a file has: all of them, no Adopted column,
\* no method column
ColumnLayouts == { <<1, 2, 3, 4, 5, 6, 7>>, <<1, 2, 3, 4, 6, 7>>, <<1, 2, 3, 4, 5>> }

\* data rows, one cell per header cell of FileColumns
RawRows ==
    {
      << <<"a","m","o","x">>, <<"2","0","2","3","-","0","7">>, <<"1","0">>, <<"M","a","i","n">>, <<" ","A","I">>, <<"1","2">>, <<"1","1">> >>,
      << <<" ","A","m","o","x"," ">>, <<"0","1","/","0","8","/","2","0","2","3">>, <<"1","0">>, <<"m","a","i","n">>, <<"M","A">>, <<"1","2">>, <<"1","3">> >>,
      << <<"A","M","O","X">>, <<"4","5","4","7","4">>, <<"0">>, <<"R","e","v","i","e","w"," ","2">>, <<"M","A">>, <<"5">>, <<>> >>,
      << <<"p","a","r","a">>, <<"s","o","o","n">>, <<"7">>, <<"M","a","i","n">>, <<"M","A">>, <<"8">>, <<"9">> >>,
      << <<"i","b","u">>, <<"J","u","l","-","2","3">>, <<"N","/","A">>, <<"M","a","i","n">>, <<"A","I">>, <<"1",",","0","0","0">>, <<"-">> >>,
      << <<"a","m","o","x">>, <<"4","5","1","0","8">>, <<"2","0">>, <<"M","a","i","n">>, <<"M","A">>, <<"2","5">>, <<"1","5">> >>,
      << <<"a","m","o","x">>, <<"A","u","g"," ","2","0","2","4">>, <<"1","0">>, <<"M","a","i","n">>, <<"M","A">>, <<"3","0">>, <<"1","0">> >>,
      << <<"a","m","o","x">>, <<"2","0","2","3","-","0","9">>, <<"0">>, <<"M","a","i","n">>, <<"n","o","n","e">>, <<>>, <<"5">> >>,
      << <<"a","m","o","x">>, <<"2","0","2","3","-","1","0","-","1","5">>, <<"1","0">>, <<"M","a","i","n">>, <<"n","o","n","e">>, <<"1","1">>, <<>> >>,
      << <<"p","a","r","a">>, <<"1","5","/","1","2","/","2","0","2","2">>, <<"4">>, <<"M","a","i","n">>, <<"M","A">>, <<"6">>, <<"2">> >>
    }

Tables == UNION {[1..n -> RawRows] : n \in 0..MaxRows}

Project(row, layout) == [k \in 1..Len(layout) |-> row[layout[k]]]

Sources ==
    {[exists |-> FALSE, columns |-> <<>>, rows |-> <<>>]}
    \cup
    {[exists  |-> TRUE,
      columns |-> Project(FileColumns, layout),
      rows    |-> [i \in 1..Len(t) |-> Project(t[i], layout)]] :
        layout \in ColumnLayouts, t \in Tables}

-----------------------------------------------------------------------------
(* Load + reshape *)

\* wide = pd.read_csv(CSV_PATH); wide.columns = [c.strip() for c in wide.columns]
ReadCsv(src) ==
    [columns |-> [i \in 1..Len(src.columns) |-> StrStrip(src.columns[i])],
     rows    |-> src.rows]

missing(w) == required \ Range(w.columns)

MethodCols(w) ==
    Filter(w.columns, [i \in 1..Len(w.columns) |-> w.columns[i] \notin Range(id_vars)])

Cell(w, row, name) == row[CHOOSE i \in 1..Len(w.columns) : w.columns[i] = name]

\* one row of the long table, with the derived columns
Observation(w, row, method) ==
    LET date == parse_period_to_date(Cell(w, row, COL_PERIOD))
        method_clean == StrStrip(AsStr(method))
        adopted_method == StrStrip(AsStr(Cell(w, row, COL_ADOPTED)))
    IN  [product        |-> Cell(w, row, COL_PRODUCT),
         Period         |-> Cell(w, row, COL_PERIOD),
         actual         |-> Cell(w, row, COL_ACTUAL),
         ftype          |-> Cell(w, row, COL_FTYPE),
         Adopted        |-> Cell(w, row, COL_ADOPTED),
         method         |-> method,
         forecast       |-> Cell(w, row, method),
         product_clean  |-> StrUpper(StrStrip(AsStr(Cell(w, row, COL_PRODUCT)))),
         method_clean   |-> method_clean,
         adopted_method |-> adopted_method,
         forecast_type  |-> normalize_forecast_type(Cell(w, row, COL_FTYPE)),
         date           |-> date,
         fy             |-> fy_from_date(date),
         actual_num     |-> to_num(Cell(w, row, COL_ACTUAL)),
         forecast_num   |-> to_num(Cell(w, row, method)),
         is_adopted     |-> method_clean = adopted_method,
         is_ai          |-> is_ai_method(method_clean)]

\* wide.melt(...): every row under the first method column, then every row
\* under the second, ...
Melt(w, mcols) ==
    LET nr == Len(w.rows)
    IN  [k \in 1..(Len(mcols) * nr) |->
            Observation(w, w.rows[((k - 1) % nr) + 1], mcols[((k - 1) \div nr) + 1])]

\* variant: the list table also requires an FY
ListFilter_require_fy(lng) ==
    Filter(lng, [i \in 1..Len(lng) |->
                    ~lng[i].forecast_num.nan /\ StrStrip(lng[i].fy) # <<>>])

\* long.dropna(subset=["product_clean", "method_clean", "forecast_num"]):
\* the two text columns come from astype(str) and are never null
ListFilter(lng) == Filter(lng, [i \in 1..Len(lng) |-> ~lng[i].forecast_num.nan])

\* variant: the blank-FY rows are kept
MetricsFilter_keep_blank_fy(lst) ==
    Filter(lst, [i \in 1..Len(lst) |-> ~lst[i].actual_num.nan])

\* dropna(subset=["actual_num"]), then fy.strip() != ""
MetricsFilter(lst) ==
    LET m1 == Filter(lst, [i \in 1..Len(lst) |-> ~lst[i].actual_num.nan])
    IN  Filter(m1, [i \in 1..Len(m1) |-> StrStrip(m1[i].fy) # <<>>])

-----------------------------------------------------------------------------
(* Responses *)

\* no request is being answered
NoResult == [op |-> "none", args |-> <<>>, status |-> 0, body |-> [none |-> TRUE]]

Ok(op, args, body) == [op |-> op, args |-> args, status |-> 200, body |-> body]

\* raise HTTPException(status_code=404, detail=...)
NotFound(op, args, detail) ==
    [op |-> op, args |-> args, status |-> 404, body |-> [detail |-> detail]]

-----------------------------------------------------------------------------
(* Slice selection *)

\* the rows of metrics_df for the product; the caller raises 404 when empty
get_product_subset_metrics(m, product) ==
    LET p == StrUpper(StrStrip(product))
    IN  Where(m, "product_clean", p)

\* sub.groupby("method_clean"): groups in ascending key order, rows in
\* their original order
GroupByMethod(sub) ==
    LET keys == SortedStrs(Column(sub, "method_clean"))
    IN  [k \in 1..Len(keys) |->
            [method |-> keys[k],
             g      |-> Where(sub, "method_clean", keys[k])]]

\* bool(g[col].any())
AnyRow(g, col) == \E i \in 1..Len(g) : g[i][col]

BoolKey(b) == IF b THEN Rat(1, 1) ELSE Rat(0, 1)

\* np.inf if np.isnan(wape) else wape
WapeKey(wape) == IF wape.nan THEN RatInf ELSE wape

-----------------------------------------------------------------------------
(* Routes *)

products(lst) == SortedStrs(Column(lst, "product_clean"))

forecast_types(lst) == SortedStrs(Column(lst, "forecast_type"))

methods(lst) == SortedStrs(Column(lst, "method_clean"))

fys(m, product) ==
    LET p   == StrUpper(StrStrip(product))
        sub == Where(m, "product_clean", p)
    IN  IF sub = <<>> THEN Ok("fys", <<product>>, [items |-> <<>>])
        ELSE Ok("fys", <<product>>,
                [items |-> SortedStrs(Column(sub, "fy"))])

\* variant: is_adopted taken from the first observation of the group
AccuracyRow_first_adopted(product, fy, forecast_type, grp) ==
    LET mt == compute_metrics(grp.g)
    IN  [product_name  |-> StrUpper(StrStrip(product)),
         fy            |-> fy,
         forecast_type |-> forecast_type,
         method        |-> grp.method,
         bias          |-> mt.bias,
         rmse          |-> mt.rmse,
         mape          |-> mt.mape,
         wape          |-> mt.wape,
         n             |-> mt.n,
         is_adopted    |-> grp.g[1].is_adopted,
         is_ai         |-> AnyRow(grp.g, "is_ai")]

AccuracyRow(product, fy, forecast_type, grp) ==
    LET mt == compute_metrics(grp.g)
    IN  [product_name  |-> StrUpper(StrStrip(product)),
         fy            |-> fy,
         forecast_type |-> forecast_type,
         method        |-> grp.method,
         bias          |-> mt.bias,
         rmse          |-> mt.rmse,
         mape          |-> mt.mape,
         wape          |-> mt.wape,
         n             |-> mt.n,
         is_adopted    |-> AnyRow(grp.g, "is_adopted"),
         is_ai         |-> AnyRow(grp.g, "is_ai")]

\* key=lambda r: (not r.is_adopted, inf if isnan(r.wape) else r.wape, r.rmse)
CompareKey(r) == <<BoolKey(~r.is_adopted), WapeKey(r.wape), r.rmse>>

compare_methods_for_fy(m, product, fy, forecast_type) ==
    LET args == <<product, fy, forecast_type>>
        sub0 == get_product_subset_metrics(m, product)
        sub  == Filter(sub0, [i \in 1..Len(sub0) |->
                    /\ sub0[i].fy = fy
                    /\ StrLower(sub0[i].forecast_type) = StrLower(StrStrip(forecast_type))])
        grps == GroupByMethod(sub)
        rows == [k \in 1..Len(grps) |-> AccuracyRow(product, fy, forecast_type, grps[k])]
    IN  IF sub0 = <<>>
        THEN NotFound("compare", args, "No usable (actual+forecast) data for product")
        ELSE IF sub = <<>>
        THEN NotFound("compare", args, "No metric-ready data for product in fy")
        ELSE Ok("compare", args,
                [product_name  |-> StrUpper(StrStrip(product)),
                 fy            |-> fy,
                 forecast_type |-> forecast_type,
                 rows          |-> StableSort(rows, [k \in 1..Len(rows) |-> CompareKey(rows[k])])])

TrendPoint(fy, forecast_type, grp) ==
    LET mt == compute_metrics(grp.g)
    IN  [fy            |-> fy,
         forecast_type |-> forecast_type,
         method        |-> grp.method,
         rmse          |-> mt.rmse,
         mape          |-> mt.mape,
         wape          |-> mt.wape,
         bias          |-> mt.bias,
         n             |-> mt.n,
         is_adopted    |-> AnyRow(grp.g, "is_adopted"),
         is_ai         |-> AnyRow(grp.g, "is_ai")]

RECURSIVE Flatten(_)
Flatten(ss) == IF ss = <<>> THEN <<>> ELSE Head(ss) \o Flatten(Tail(ss))

\* fy_order = {y: i for i, y in enumerate(years_existing)}: a repeated
\* label keeps its last index; fy_order.get(fy, 999)
FyOrder(years_existing, fy) ==
    LET idx == {i \in 1..Len(years_existing) : years_existing[i] = fy}
    IN  IF idx = {} THEN 999 ELSE (CHOOSE i \in idx : \A j \in idx : j <= i) - 1

\* key=lambda p: (fy_order.get(p.fy, 999), not p.is_adopted, inf if isnan(p.wape) else p.wape)
TrendKey(years_existing, pt) ==
    <<Rat(FyOrder(years_existing, pt.fy), 1), BoolKey(~pt.is_adopted), WapeKey(pt.wape)>>

trend(m, product, forecast_type, years_arg) ==
    LET args == <<product, forecast_type, years_arg>>
        sub0 == get_product_subset_metrics(m, product)
        sub  == Filter(sub0, [i \in 1..Len(sub0) |->
                    StrLower(sub0[i].forecast_type) = StrLower(StrStrip(forecast_type))])
        years == IF years_arg = <<>> THEN TARGET_FYS ELSE years_arg
        years_existing == Filter(years, [i \in 1..Len(years) |-> years[i] \in Column(sub, "fy")])
        PointsOf(fy) ==
            LET grps == GroupByMethod(Where(sub, "fy", fy))
            IN  [k \in 1..Len(grps) |-> TrendPoint(fy, forecast_type, grps[k])]
        points == Flatten([i \in 1..Len(years_existing) |-> PointsOf(years_existing[i])])
    IN  IF sub0 = <<>>
        THEN NotFound("trend", args, "No usable (actual+forecast) data for product")
        ELSE IF years_existing = <<>>
        THEN NotFound("trend", args, "No data for product in requested years")
        ELSE Ok("trend", args,
                [product_name  |-> StrUpper(StrStrip(product)),
                 years         |-> years_existing,
                 forecast_type |-> forecast_type,
                 points        |-> StableSort(points,
                     [k \in 1..Len(points) |-> TrendKey(years_existing, points[k])])])

RECURSIVE DropDuplicateDates(_, _)
\* drop_duplicates(subset=["date"]): the first row of every date is kept
DropDuplicateDates(sub, seen) ==
    IF sub = <<>> THEN <<>>
    ELSE IF Head(sub).date \in seen THEN DropDuplicateDates(Tail(sub), seen)
    ELSE <<Head(sub)>> \o DropDuplicateDates(Tail(sub), seen \cup {Head(sub).date})

RECURSIVE SortByDate(_)
\* sort_values("date") on rows of distinct dates
SortByDate(sub) ==
    IF sub = <<>> THEN <<>>
    ELSE LET i == CHOOSE i \in 1..Len(sub) :
                    \A j \in 1..Len(sub) : j = i \/ DateLess(sub[i].date, sub[j].date)
         IN  <<sub[i]>> \o SortByDate(SelectIdx(sub, [j \in 1..Len(sub) |-> j # i], 1))

actuals(m, product, fy) ==
    LET args  == <<product, fy>>
        p     == StrUpper(StrStrip(product))
        sub0  == Where(Where(m, "product_clean", p), "fy", fy)
        sub   == SortByDate(DropDuplicateDates(
                     Filter(sub0, [i \in 1..Len(sub0) |->
                         ~sub0[i].actual_num.nan /\ sub0[i].date # NaT]), {}))
        actuals_list == [i \in 1..Len(sub) |-> sub[i].actual_num.v]
    IN  IF sub0 = <<>> THEN NotFound("actuals", args, "No actuals for product in fy")
        ELSE IF actuals_list = <<>>
        THEN NotFound("actuals", args, "No numeric actuals for product in fy")
        ELSE Ok("actuals", args, [product_name |-> p, fy |-> fy, actuals |-> actuals_list])

debug_health(w, mcols, lng, lst, m) ==
    Ok("health", <<>>,
       [wide_rows  |-> Len(w.rows),
        long_rows  |-> Len(lng),
        list_rows  |-> Len(lst),
        metrics_rows |-> Len(m),
        unique_products_long    |-> Cardinality(Column(lst, "product_clean")),
        unique_products_metrics |-> Cardinality(Column(m, "product_clean")),
        unique_fys_metrics      |-> SortedStrs(Column(m, "fy")),
        nat_dates      |-> Len(Where(lng, "date", NaT)),
        blank_fy_total |-> Len(Filter(lng, [i \in 1..Len(lng) |-> StrStrip(lng[i].fy) = <<>>])),
        forecast_type_unique   |-> SortedStrs(Column(lst, "forecast_type")),
        method_columns_count   |-> Len(mcols),
        columns |-> w.columns])

-----------------------------------------------------------------------------
(* Arguments of the requests *)

FY2223 == <<"F","Y","2","2","/","2","3">>
FY2324 == <<"F","Y","2","3","/","2","4">>
FY2425 == <<"F","Y","2","4","/","2","5">>

ProductArgs == { <<" ","a","m","o","x">>, <<"P","A","R","A">>, <<"z","z","z">> }
FyArgs == {FY2223, FY2324, FY2425}
ForecastTypeArgs == { <<"M","a","i","n">>, <<" ","r","e","v","i","e","w">> }
YearsArgs == { <<>>, <<FY2425, FY2324>>, <<FY2223>>, <<FY2324, FY2425, FY2324>> }

-----------------------------------------------------------------------------
(* The service: module-level script, then the routes *)

tables == <<wide, method_cols, long, long_for_lists, metrics_df>>
pure == <<fy_d, fy_out, cm_sub, cm_out>>

Init ==
    /\ pc = "start"
    /\ source \in Sources
    /\ wide = UnsetWide
    /\ method_cols = <<Unset>>
    /\ long = UnsetTable
    /\ long_for_lists = UnsetTable
    /\ metrics_df = UnsetTable
    /\ result = NoResult
    /\ fy_d = NaT
    /\ fy_out = Unset
    /\ cm_sub = <<>>
    /\ cm_out = [n |-> 0, unset |-> TRUE]

LoadCsv ==
    /\ pc = "start"
    /\ IF ~source.exists
       THEN pc' = "aborted" /\ UNCHANGED wide
       ELSE pc' = "check_columns" /\ wide' = ReadCsv(source)
    /\ UNCHANGED <<source, method_cols, long, long_for_lists, metrics_df, result, pure>>

\* variant: no check that a method column was found
CheckColumns_no_method_check ==
    /\ pc = "check_columns"
    /\ IF missing(wide) # {}
       THEN pc' = "aborted" /\ UNCHANGED method_cols
       ELSE /\ method_cols' = MethodCols(wide)
            /\ pc' = "reshape"
    /\ UNCHANGED <<source, wide, long, long_for_lists, metrics_df, result, pure>>

CheckColumns ==
    /\ pc = "check_columns"
    /\ IF missing(wide) # {}
       THEN pc' = "aborted" /\ UNCHANGED method_cols
       ELSE /\ method_cols' = MethodCols(wide)
            /\ pc' = IF MethodCols(wide) = <<>> THEN "aborted" ELSE "reshape"
    /\ UNCHANGED <<source, wide, long, long_for_lists, metrics_df, result, pure>>

Reshape ==
    /\ pc = "reshape"
    /\ long' = Melt(wide, method_cols)
    /\ pc' = "build_lists"
    /\ UNCHANGED <<source, wide, method_cols, long_for_lists, metrics_df, result, pure>>

BuildLists ==
    /\ pc = "build_lists"
    /\ long_for_lists' = ListFilter(long)
    /\ pc' = "build_metrics"
    /\ UNCHANGED <<source, wide, method_cols, long, metrics_df, result, pure>>

BuildMetrics ==
    /\ pc = "build_metrics"
    /\ metrics_df' = MetricsFilter(long_for_lists)
    /\ pc' = "serving"
    /\ UNCHANGED <<source, wide, method_cols, long, long_for_lists, result, pure>>

ProductsQuery ==
    /\ pc = "serving"
    /\ result = NoResult
    /\ result' = Ok("products", <<>>, [items |-> products(long_for_lists)])
    /\ UNCHANGED <<pc, source, tables, pure>>

FysQuery(product) ==
    /\ pc = "serving"
    /\ result = NoResult
    /\ result' = fys(metrics_df, product)
    /\ UNCHANGED <<pc, source, tables, pure>>

ForecastTypesQuery ==
    /\ pc = "serving"
    /\ result = NoResult
    /\ result' = Ok("forecast-types", <<>>, [items |-> forecast_types(long_for_lists)])
    /\ UNCHANGED <<pc, source, tables, pure>>

MethodsQuery ==
    /\ pc = "serving"
    /\ result = NoResult
    /\ result' = Ok("methods", <<>>, [items |-> methods(long_for_lists)])
    /\ UNCHANGED <<pc, source, tables, pure>>

CompareQuery(product, fy, forecast_type) ==
    /\ pc = "serving"
    /\ result = NoResult
    /\ result' = compare_methods_for_fy(metrics_df, product, fy, forecast_type)
    /\ UNCHANGED <<pc, source, tables, pure>>

TrendQuery(product, forecast_type, years) ==
    /\ pc = "serving"
    /\ result = NoResult
    /\ result' = trend(metrics_df, product, forecast_type, years)
    /\ UNCHANGED <<pc, source, tables, pure>>

\* variant: the de-duplication is done on metrics_df itself, not on a copy
ActualsQuery_in_place(product, fy) ==
    /\ pc = "serving"
    /\ result = NoResult
    /\ result' = actuals(metrics_df, product, fy)
    /\ metrics_df' = DropDuplicateDates(metrics_df, {})
    /\ UNCHANGED <<pc, source, wide, method_cols, long, long_for_lists, pure>>

ActualsQuery(product, fy) ==
    /\ pc = "serving"
    /\ result = NoResult
    /\ result' = actuals(metrics_df, product, fy)
    /\ UNCHANGED <<pc, source, tables, pure>>

HealthQuery ==
    /\ pc = "serving"
    /\ result = NoResult
    /\ result' = debug_health(wide, method_cols, long, long_for_lists, metrics_df)
    /\ UNCHANGED <<pc, source, tables, pure>>

\* the handler returns: the response leaves the process
SendResponse ==
    /\ pc = "serving"
    /\ result # NoResult
    /\ result' = NoResult
    /\ UNCHANGED <<pc, source, tables, pure>>

Next ==
    \/ LoadCsv
    \/ CheckColumns
    \/ Reshape
    \/ BuildLists
    \/ BuildMetrics
    \/ ProductsQuery
    \/ \E p \in ProductArgs : FysQuery(p)
    \/ ForecastTypesQuery
    \/ MethodsQuery
    \/ \E p \in ProductArgs, fy \in FyArgs, ft \in ForecastTypeArgs : CompareQuery(p, fy, ft)
    \/ \E p \in ProductArgs, ft \in ForecastTypeArgs, ys \in YearsArgs : TrendQuery(p, ft, ys)
    \/ \E p \in ProductArgs, fy \in FyArgs : ActualsQuery(p, fy)
    \/ HealthQuery
    \/ SendResponse

Spec == Init /\ [][Next]_vars

-----------------------------------------------------------------------------
(* fy_from_date applied to dates around two century boundaries *)

FyYears == UNION {(c - FySpan)..(c + FySpan - 1) : c \in {2000, 2024, 2100}}

FyDates == {NaT} \cup {<<y, m, 1>> : y \in FyYears, m \in 1..12}

InitFY ==
    /\ pc = "fy_call"
    /\ source = [exists |-> FALSE, columns |-> <<>>, rows |-> <<>>]
    /\ wide = UnsetWide
    /\ method_cols = <<Unset>>
    /\ long = UnsetTable
    /\ long_for_lists = UnsetTable
    /\ metrics_df = UnsetTable
    /\ result = NoResult
    /\ fy_d \in FyDates
    /\ fy_out = Unset
    /\ cm_sub = <<>>
    /\ cm_out = [n |-> 0, unset |-> TRUE]

ClassifyFY ==
    /\ pc = "fy_call"
    /\ fy_out' = fy_from_date(fy_d)
    /\ pc' = "fy_done"
    /\ UNCHANGED <<source, tables, result, fy_d, cm_sub, cm_out>>

NextFY == ClassifyFY

SpecFY == InitFY /\ [][NextFY]_vars

-----------------------------------------------------------------------------
(* compute_metrics applied to slices of complete actual/forecast pairs *)

CmVals == (0 - 1)..CmMax

PairRows == {[actual_num |-> Num(a), forecast_num |-> Num(f)] : a \in CmVals, f \in CmVals}

Slices == UNION {[1..n -> PairRows] : n \in 0..MaxSliceLen}

InitCM ==
    /\ pc = "cm_call"
    /\ source = [exists |-> FALSE, columns |-> <<>>, rows |-> <<>>]
    /\ wide = UnsetWide
    /\ method_cols = <<Unset>>
    /\ long = UnsetTable
    /\ long_for_lists = UnsetTable
    /\ metrics_df = UnsetTable
    /\ result = NoResult
    /\ fy_d = NaT
    /\ fy_out = Unset
    /\ cm_sub \in Slices
    /\ cm_out = [n |-> 0, unset |-> TRUE]

ComputeMetrics ==
    /\ pc = "cm_call"
    /\ cm_out' = compute_metrics(cm_sub)
    /\ pc' = "cm_done"
    /\ UNCHANGED <<source, tables, result, fy_d, fy_out, cm_sub>>

NextCM == ComputeMetrics

SpecCM == InitCM /\ [][NextCM]_vars

-----------------------------------------------------------------------------
(* Properties: helpers *)

Answered(op) == pc = "serving" /\ result.op = op
Served(op) == Answered(op) /\ result.status = 200

\* the product a request names, as the routes normalise it
ArgProduct == StrUpper(StrStrip(result.args[1]))

FtMatches(r, forecast_type) ==
    StrLower(r.forecast_type) = StrLower(StrStrip(forecast_type))

\* x sorts before y, undefined (NaN) last
WapeBefore(x, y) == ~x.nan /\ (y.nan \/ RatLess(x, y))
WapeSame(x, y) == (x.nan /\ y.nan) \/ (~x.nan /\ ~y.nan /\ x = y)

\* row a must come before row b under the sorting contract
MustPrecede(a, b) ==
    \/ a.is_adopted /\ ~b.is_adopted
    \/ a.is_adopted = b.is_adopted /\ WapeBefore(a.wape, b.wape)
    \/ a.is_adopted = b.is_adopted /\ WapeSame(a.wape, b.wape) /\ RatLess(a.rmse, b.rmse)

FirstIdx(s, x) == CHOOSE i \in 1..Len(s) : s[i] = x /\ \A j \in 1..(i - 1) : s[j] # x

TwoDigits(n) == <<Digits[(n \div 10) + 1], Digits[(n % 10) + 1]>>

-----------------------------------------------------------------------------
(* C1 *)

CompareSorted ==
    Served("compare") =>
        \A i, j \in 1..Len(result.body.rows) :
            i < j => ~MustPrecede(result.body.rows[j], result.body.rows[i])

TrendSorted ==
    Served("trend") =>
        \A i, j \in 1..Len(result.body.points) :
            (i < j /\ result.body.points[i].fy = result.body.points[j].fy)
                => ~MustPrecede(result.body.points[j], result.body.points[i])

\* C1: in the compare rows, and in the trend points of each financial year,
\* no row stands behind a row it must precede: adopted first, then ascending
\* WAPE with undefined WAPE last, then ascending RMSE.
C1_SortContract == CompareSorted /\ TrendSorted

-----------------------------------------------------------------------------
(* C2 *)

ProductRows(p) == Where(long, "product_clean", p)

Complete(r) == ~r.actual_num.nan /\ ~r.forecast_num.nan

NeverSeen(p) == ProductRows(p) = <<>>

\* the product has rows, none with a complete actual+forecast pair
NoCompletePair(p) ==
    /\ ProductRows(p) # <<>>
    /\ \A i \in 1..Len(ProductRows(p)) : ~Complete(ProductRows(p)[i])

NoRowsForFy(p, fy) ==
    /\ ProductRows(p) # <<>>
    /\ \A i \in 1..Len(ProductRows(p)) : ProductRows(p)[i].fy # fy

NotFoundCase ==
    \/ NeverSeen(ArgProduct)
    \/ NoCompletePair(ArgProduct)
    \/ result.op \in {"compare", "actuals"} /\ NoRowsForFy(ArgProduct, result.args[2])

\* C2: a product/FY query that meets one of the three not-found conditions
\* answers 404, never 200 with empty content, and a never-seen product is
\* reported differently from a product without a complete pair.
C2_NotFoundOutcomes ==
    /\ (pc = "serving" /\ result.op \in {"fys", "compare", "trend", "actuals"} /\ NotFoundCase)
           => result.status = 404
    /\ pc = "serving" =>
           \A p1, p2 \in ProductArgs, fy \in FyArgs, ft \in ForecastTypeArgs :
               (NeverSeen(StrUpper(StrStrip(p1))) /\ NoCompletePair(StrUpper(StrStrip(p2))))
                   => compare_methods_for_fy(metrics_df, p1, fy, ft).body
                          # compare_methods_for_fy(metrics_df, p2, fy, ft).body

-----------------------------------------------------------------------------
(* C3 *)

Items == Range(result.body.items)

\* C3: every product, method and forecast type of a wide-table cell holding a
\* numeric forecast is in the products, methods and forecast-types listing.
C3_ListingsComplete ==
    pc = "serving" =>
        \A i \in 1..Len(wide.rows), k \in 1..Len(method_cols) :
            ~to_num(Cell(wide, wide.rows[i], method_cols[k])).nan =>
                /\ result.op = "products" =>
                       StrUpper(StrStrip(AsStr(Cell(wide, wide.rows[i], COL_PRODUCT)))) \in Items
                /\ result.op = "methods" => StrStrip(method_cols[k]) \in Items
                /\ result.op = "forecast-types" =>
                       normalize_forecast_type(Cell(wide, wide.rows[i], COL_FTYPE)) \in Items

\* a listed product without any metrics row
C3_Witness ==
    /\ Answered("products")
    /\ \E x \in Items : \A i \in 1..Len(metrics_df) : metrics_df[i].product_clean # x

-----------------------------------------------------------------------------
(* C4 *)

FileColumnNames == {StrStrip(source.columns[i]) : i \in 1..Len(source.columns)}

SourceUnusable ==
    \/ ~source.exists
    \/ ~(required \subseteq FileColumnNames)
    \/ FileColumnNames \subseteq Range(id_vars)

\* C4: on an unusable source the script never gets past the column check and
\* no query is answered; a query is answered only with the long, list and
\* metrics tables all built from the whole wide table.
C4_IngestionAllOrNothing ==
    /\ SourceUnusable => (result = NoResult /\ pc \in {"start", "check_columns", "aborted"})
    /\ pc = "aborted" => (SourceUnusable /\ result = NoResult)
    /\ result # NoResult =>
           /\ pc = "serving"
           /\ long # UnsetTable
           /\ Len(long) = Len(wide.rows) * Len(method_cols)
           /\ long_for_lists # UnsetTable
           /\ metrics_df # UnsetTable

\* startup aborted on a file without method columns
C4_Witness ==
    /\ pc = "aborted"
    /\ source.exists
    /\ required \subseteq FileColumnNames
    /\ FileColumnNames \subseteq Range(id_vars)

-----------------------------------------------------------------------------
(* C5 *)

\* C5: every metrics row has a numeric forecast cell, a numeric actual cell and
\* the non-blank FY of a parseable period; no long row with an unparseable
\* period, a non-numeric forecast or a non-numeric actual is in the metrics set.
C5_MetricsRowsComplete ==
    pc = "serving" =>
        /\ \A i \in 1..Len(metrics_df) :
               /\ ~to_num(metrics_df[i].forecast).nan
               /\ ~to_num(metrics_df[i].actual).nan
               /\ parse_period_to_date(metrics_df[i].Period) # NaT
               /\ metrics_df[i].fy # <<>>
               /\ Complete(metrics_df[i])
        /\ \A i \in 1..Len(long) :
               (long[i].date = NaT \/ long[i].forecast_num.nan \/ long[i].actual_num.nan)
                   => long[i] \notin Range(metrics_df)

\* a complete pair left out only for its unparseable period, next to kept rows
C5_Witness ==
    /\ pc = "serving"
    /\ metrics_df # <<>>
    /\ \E i \in 1..Len(long) : long[i].date = NaT /\ Complete(long[i])
    /\ \E i \in 1..Len(long) : long[i].date # NaT /\ ~Complete(long[i])

-----------------------------------------------------------------------------
(* C6 *)

CmActual(i) == cm_sub[i].actual_num.v
CmError(i) == cm_sub[i].forecast_num.v - cm_sub[i].actual_num.v
CmNonZero == {i \in 1..Len(cm_sub) : CmActual(i) # 0}
CmSumAbsActual == SumInts([i \in 1..Len(cm_sub) |-> Abs(CmActual(i))])
CmSumAbsError == SumInts([i \in 1..Len(cm_sub) |-> Abs(CmError(i))])

\* C6: n is always the slice length; MAPE is NaN exactly when no row has
\* actual # 0 and otherwise is the MAPE of the slice without its zero-actual
\* rows (for one such row, 100 * |error| / actual); WAPE is NaN exactly when
\* sum |actual| = 0 and otherwise 100 * sum |error| / sum |actual|.
C6_MapeWape ==
    pc = "cm_done" =>
        /\ cm_out.n = Len(cm_sub)
        /\ cm_out.mape.nan <=> CmNonZero = {}
        /\ CmNonZero # {} =>
               cm_out.mape = compute_metrics(Filter(cm_sub,
                   [i \in 1..Len(cm_sub) |-> CmActual(i) # 0])).mape
        /\ \A i \in CmNonZero :
               CmNonZero = {i} =>
                   cm_out.mape.num * CmActual(i) = 100 * Abs(CmError(i)) * cm_out.mape.den
        /\ cm_out.wape.nan <=> CmSumAbsActual = 0
        /\ CmSumAbsActual # 0 =>
               cm_out.wape.num * CmSumAbsActual = 100 * CmSumAbsError * cm_out.wape.den

\* a slice mixing a zero actual with a non-zero one
C6_Witness ==
    /\ pc = "cm_done"
    /\ CmNonZero # {}
    /\ \E i \in 1..Len(cm_sub) : CmActual(i) = 0 /\ CmError(i) # 0
    /\ ~cm_out.mape.nan

-----------------------------------------------------------------------------
(* C7 *)

\* the observations the comparison selects for the request in result
CompareSlice ==
    Filter(metrics_df, [i \in 1..Len(metrics_df) |->
        /\ metrics_df[i].product_clean = ArgProduct
        /\ metrics_df[i].fy = result.args[2]
        /\ FtMatches(metrics_df[i], result.args[3])])

SliceOf(method) == Where(CompareSlice, "method_clean", method)

\* C7: the comparison has exactly one row per method observed in the selected
\* slice, n is the number of that method's observations, and is_adopted holds
\* exactly when an observation of the method carries it as adopted label.
C7_OneRowPerMethod ==
    Served("compare") =>
        LET rows == result.body.rows
        IN  /\ {rows[k].method : k \in 1..Len(rows)}
                   = {CompareSlice[i].method_clean : i \in 1..Len(CompareSlice)}
            /\ \A k, l \in 1..Len(rows) : rows[k].method = rows[l].method => k = l
            /\ \A k \in 1..Len(rows) :
                   /\ rows[k].n = Len(SliceOf(rows[k].method))
                   /\ rows[k].is_adopted <=>
                          \E i \in 1..Len(SliceOf(rows[k].method)) :
                              StrStrip(AsStr(SliceOf(rows[k].method)[i].Adopted)) = rows[k].method

\* two methods compared over two observations each, whose adopted labels differ
C7_Witness ==
    /\ Served("compare")
    /\ Len(result.body.rows) = 2
    /\ \A k \in 1..2 : result.body.rows[k].n = 2 /\ result.body.rows[k].is_adopted
    /\ \E i, j \in 1..Len(CompareSlice) :
           CompareSlice[i].adopted_method # CompareSlice[j].adopted_method

-----------------------------------------------------------------------------
(* C8 *)

\* C8: once serving, no step changes the wide, long, list or metrics table or
\* leaves the serving state, whatever the query answers.
C8_TablesImmutable ==
    [][pc = "serving" => (pc' = "serving" /\ UNCHANGED <<source, tables>>)]_vars

\* an actuals answer shorter than the rows it was selected from: the
\* de-duplication happened, the metrics table still has every row
C8_Witness ==
    /\ Served("actuals")
    /\ Len(result.body.actuals) <
           Len(Where(Where(metrics_df, "product_clean", ArgProduct), "fy", result.args[2]))
    /\ metrics_df = MetricsFilter(ListFilter(Melt(wide, method_cols)))

-----------------------------------------------------------------------------
(* C9 *)

FyStartYear == IF fy_d[2] >= 7 THEN fy_d[1] ELSE fy_d[1] - 1

\* C9: the label of a date is FY, the two-digit start year (the date's year
\* from July on, the year before otherwise), a slash and the two-digit
\* following year; the label of a missing date is blank.
C9_FyLabel ==
    pc = "fy_done" =>
        IF fy_d = NaT THEN fy_out = <<>>
        ELSE fy_out = <<"F","Y">> \o TwoDigits(FyStartYear % 100)
                          \o <<"/">> \o TwoDigits((FyStartYear + 1) % 100)

\* a July date of a financial year that ends in the next century
C9_Witness ==
    /\ pc = "fy_done"
    /\ fy_d # NaT
    /\ fy_d[2] = 7
    /\ FyStartYear % 100 = 99
    /\ fy_out = <<"F","Y","9","9","/","0","0">>

-----------------------------------------------------------------------------
(* C10 *)

TrendYears == IF result.args[3] = <<>> THEN TARGET_FYS ELSE result.args[3]

TrendHasData(y) ==
    \E i \in 1..Len(metrics_df) :
        /\ metrics_df[i].product_clean = ArgProduct
        /\ metrics_df[i].fy = y
        /\ FtMatches(metrics_df[i], result.args[2])

TrendExpectedYears ==
    Filter(TrendYears, [i \in 1..Len(TrendYears) |-> TrendHasData(TrendYears[i])])

ProductHasMetrics == \E i \in 1..Len(metrics_df) : metrics_df[i].product_clean = ArgProduct

\* C10: for a product with metric-ready data, trend answers not-found exactly
\* when no requested year has data; otherwise years are the requested labels
\* with data in the caller's order, every point is of one of them, and the
\* points follow the order of the years.
C10_TrendYears ==
    (Answered("trend") /\ ProductHasMetrics) =>
        /\ result.status = 404 <=> TrendExpectedYears = <<>>
        /\ result.status = 200 =>
               LET pts == result.body.points
               IN  /\ result.body.years = TrendExpectedYears
                   /\ \A i \in 1..Len(pts) : pts[i].fy \in Range(result.body.years)
                   /\ \A i, j \in 1..Len(pts) :
                          i < j => FirstIdx(result.body.years, pts[i].fy)
                                       <= FirstIdx(result.body.years, pts[j].fy)

=============================================================================
